---- MODULE Spec2Model ----
(***************************************************************************)
(* A model of the stateright checker (src/src/checker.rs): the Worker with *)
(* its FIFO frontier `pending` and its predecessor map `sources`, and the  *)
(* Checker that runs the workers of a pass, consolidates their results,    *)
(* forks workers and reconstructs paths.                                   *)
(***************************************************************************)
EXTENDS Integers, Sequences, FiniteSets, TLC

\* ------------------------------------------------------------------ bounds
\* States of the machines under check are 0 .. NumStates-1.
NumStates == 5
\* check(max_count) is called with max_count in 0 .. MaxCount.
MaxCount == 2
\* adjust_worker_count(target, min_pending): target in 0 .. MaxTarget.
MaxTarget == 3
\* No fork is taken once the checker holds MaxWorkers workers.
MaxWorkers == 3
\* check_and_report starts with a block_size of 32_768 states, more than a
\* machine of NumStates states can use up; the model starts it at
\* StartBlockSize and lets it grow up to MaxBlockSize.
StartBlockSize == 2
MaxBlockSize == 3

\* ------------------------------------------------------------- the machine
\* Option::None, for Option<State> and Option<u64>.
None == -1

\* usize arithmetic wraps modulo a power of two in a build without overflow
\* checks; the model keeps the largest power of two its integers hold.
UsizeModulus == 2^30

States == 0 .. (NumStates - 1)

\* What init_states() may return: no state, one state, two states in either
\* order, and the same state twice.
InitChoices == {<<>>, <<0>>, <<0, 1>>, <<1, 0>>, <<0, 0>>}

\* The states an invariant may be violated by: none, one state, two states
\* that a search reaches side by side, or every state.
BadChoices ==
    {{}, States} \cup {{s} : s \in States} \cup {{1, 2}, {3, 4}}

\* The state machines handed to Checker::new: a kind of transition function,
\* the sequence init_states() returns, and the states violating the invariant.
Kinds == {"ring", "tree"}

\* The call of a user callback that panics, if any: actions(state),
\* next_state(state, action) or the invariant on `state`.
NoPanic == [callback |-> "none", state |-> None, action |-> None]

Machines ==
    [kind : Kinds,
     init_states : InitChoices,
     bad : BadChoices,
     panic : {NoPanic}]

\* The callbacks that panic like Adder::actions of examples/panic.rs, on one
\* of the first states a search reaches.
PanicChoices ==
    {[callback |-> c, state |-> s, action |-> None] :
        c \in {"actions", "invariant"}, s \in 1 .. 3}
    \cup {[callback |-> "next_state", state |-> s, action |-> a] :
              s \in 1 .. 2, a \in 1 .. 2}

\* The machines with a panicking callback.
PanicMachines ==
    [kind : Kinds,
     init_states : {<<0>>, <<0, 1>>},
     bad : {{}, {2}, {3, 4}},
     panic : PanicChoices]

\* The thresholds adjust_worker_count is called with: min_pending 0 lets an
\* empty frontier be forked, 1 a frontier of one state, 2 only a frontier
\* that a fork splits into two non-empty ones.
MinPendingChoices == {0, 1, 2}

VARIABLES
    sm,         \* the state machine and invariant under check (never changes)
    build,      \* what a usize overflow does in this build: "debug" panics,
                \* "release" wraps; "unknown" until an overflow has shown it
    workers,    \* Checker.workers: each [pending, sources, popped]
    adj,        \* position of a running adjust_worker_count call
    report,     \* position of a running check_and_report call
    panicked,   \* a panic has reached the caller
    last,       \* the last completed call and what it returned
    fails,      \* the states of the Fail results returned so far, in order
    forked      \* the forks taken so far of frontiers that held a state

vars == <<sm, build, workers, adj, report, panicked, last, fails, forked>>

\* state_machine.actions(state, &mut actions)
Actions(state) ==
    IF sm.kind = "ring" THEN <<1, 2>>
    ELSE IF 2 * state < NumStates THEN <<1, 2>> ELSE <<>>

\* state_machine.next_state(state, action)
NextState(state, action) ==
    IF sm.kind = "ring" THEN (state + action) % NumStates
    ELSE IF 2 * state + action < NumStates THEN 2 * state + action ELSE None

\* (self.invariant)(state_machine, state)
Invariant(state) == state \notin sm.bad

\* fingerprint(&state): a deterministic hash, without collisions on States.
fingerprint(state) == (state * 7 + 3) % 31

\* ------------------------------------------------------------------ Worker

\* An init that seeds the worker with the first initial state only.
InitLoopFirstOnly(init_states, pending, sources) ==
    IF init_states = <<>> THEN [pending |-> pending, sources |-> sources, popped |-> <<>>]
    ELSE [pending |-> Append(pending, Head(init_states)),
          sources |-> sources @@ (fingerprint(Head(init_states)) :> None),
          popped |-> <<>>]

\* Worker::init
RECURSIVE InitLoop(_, _, _)
InitLoop(init_states, pending, sources) ==
    IF init_states = <<>> THEN [pending |-> pending, sources |-> sources, popped |-> <<>>]
    ELSE LET init_state == Head(init_states)
             init_digest == fingerprint(init_state)
         IN  IF init_digest \notin DOMAIN sources
             THEN InitLoop(Tail(init_states), Append(pending, init_state),
                           sources @@ (init_digest :> None))
             ELSE InitLoop(Tail(init_states), pending, sources)

WorkerInit == InitLoop(sm.init_states, <<>>, <<>>)

\* Record with the successor entered in the map but never queued.
RecordNoPush(w, state, next_action) ==
    LET next_state == NextState(state, next_action)
        next_digest == fingerprint(next_state)
    IN  IF next_state # None /\ next_digest \notin DOMAIN w.sources
        THEN [w EXCEPT !.sources = w.sources @@ (next_digest :> fingerprint(state))]
        ELSE w

\* Record with the frontier used as a stack: push_front instead of push_back.
RecordPushFront(w, state, next_action) ==
    LET next_state == NextState(state, next_action)
        next_digest == fingerprint(next_state)
    IN  IF next_state # None /\ next_digest \notin DOMAIN w.sources
        THEN [w EXCEPT !.sources = w.sources @@ (next_digest :> fingerprint(state)),
                       !.pending = <<next_state>> \o w.pending]
        ELSE w

\* Record with a plain insert: the source of a digest seen before is replaced.
RecordOverwrite(w, state, next_action) ==
    LET next_state == NextState(state, next_action)
        next_digest == fingerprint(next_state)
    IN  IF next_state = None THEN w
        ELSE IF next_digest \notin DOMAIN w.sources
        THEN [w EXCEPT !.sources = w.sources @@ (next_digest :> fingerprint(state)),
                       !.pending = Append(w.pending, next_state)]
        ELSE [w EXCEPT !.sources = (next_digest :> fingerprint(state)) @@ w.sources]

\* The body of `for next_action in &next_actions` in Worker::check, for one
\* action: a successor not seen before is recorded with its source and queued.
Record(w, state, next_action) ==
    LET next_state == NextState(state, next_action)
        next_digest == fingerprint(next_state)
    IN  IF next_state # None /\ next_digest \notin DOMAIN w.sources
        THEN [w EXCEPT !.sources = w.sources @@ (next_digest :> fingerprint(state)),
                       !.pending = Append(w.pending, next_state)]
        ELSE w

RECURSIVE Expand(_, _, _)
Expand(w, state, next_actions) ==
    IF next_actions = <<>> THEN w
    ELSE Expand(Record(w, state, Head(next_actions)), state, Tail(next_actions))

Pass == [tag |-> "Pass", state |-> None]
Incomplete == [tag |-> "Incomplete", state |-> None]
Fail(s) == [tag |-> "Fail", state |-> s]
Panic == [tag |-> "Panic", state |-> None]

\* A panic of a user callback called for `state`: the thread of the worker
\* ends without a CheckResult.
CallbackPanic(state) == [tag |-> "Panic", state |-> state]

PanicsIn(callback, state) == sm.panic.callback = callback /\ sm.panic.state = state

\* The actions handed to next_state before `action` is.
RECURSIVE Before(_, _)
Before(next_actions, action) ==
    IF next_actions = <<>> \/ Head(next_actions) = action THEN <<>>
    ELSE <<Head(next_actions)>> \o Before(Tail(next_actions), action)

\* Verdict with the test of the invariant inverted.
VerdictInverted(state, remaining, overflow_checks) ==
    IF Invariant(state) THEN Fail(state)
    ELSE IF remaining = 0 /\ overflow_checks THEN Panic
    ELSE IF (remaining - 1) % UsizeModulus = 0 THEN Incomplete
    ELSE [tag |-> "continue", state |-> None]

\* What one iteration of the `while let` decides after the expansion: the
\* invariant, then `remaining -= 1` (a panic at 0 in a build with overflow
\* checks, a wrap otherwise) and the test for zero.  "continue" loops.
Verdict(state, remaining, overflow_checks) ==
    IF ~Invariant(state) THEN Fail(state)
    ELSE IF remaining = 0 /\ overflow_checks THEN Panic
    ELSE IF (remaining - 1) % UsizeModulus = 0 THEN Incomplete
    ELSE [tag |-> "continue", state |-> None]

\* CheckLoop with the invariant evaluated before the expansion: a failing
\* state is returned without its successors being recorded.
RECURSIVE CheckLoopFailFirst(_, _, _, _)
CheckLoopFailFirst(w, remaining, count, overflow_checks) ==
    IF w.pending = <<>>
    THEN [worker |-> w, result |-> Pass, count |-> count, remaining |-> remaining]
    ELSE LET state == Head(w.pending)
             popped == [w EXCEPT !.pending = Tail(w.pending),
                                 !.popped = Append(w.popped, state)]
             w2 == Expand(popped, state, Actions(state))
             v == Verdict(state, remaining, overflow_checks)
         IN  IF v.tag = "continue"
             THEN CheckLoopFailFirst(w2, (remaining - 1) % UsizeModulus, count + 1,
                                     overflow_checks)
             ELSE [worker |-> IF v.tag = "Fail" THEN popped ELSE w2,
                   result |-> v, count |-> count + 1,
                   remaining |-> IF v.tag = "Incomplete" THEN 0 ELSE remaining]

\* Worker::check: `count` states were popped so far in this call.
RECURSIVE CheckLoop(_, _, _, _)
CheckLoop(w, remaining, count, overflow_checks) ==
    IF w.pending = <<>>
    THEN [worker |-> w, result |-> Pass, count |-> count, remaining |-> remaining]
    ELSE LET state == Head(w.pending)
             popped == [w EXCEPT !.pending = Tail(w.pending),
                                 !.popped = Append(w.popped, state)]
             w2 == Expand(popped, state, Actions(state))
             v == Verdict(state, remaining, overflow_checks)
             unwound(worker) == [worker |-> worker, result |-> CallbackPanic(state),
                                 count |-> count + 1, remaining |-> remaining]
         IN  IF PanicsIn("actions", state) THEN unwound(popped)
             ELSE IF /\ PanicsIn("next_state", state)
                     /\ \E k \in DOMAIN Actions(state) :
                           Actions(state)[k] = sm.panic.action
             THEN unwound(Expand(popped, state, Before(Actions(state), sm.panic.action)))
             ELSE IF PanicsIn("invariant", state) THEN unwound(w2)
             ELSE IF v.tag = "continue"
             THEN CheckLoop(w2, (remaining - 1) % UsizeModulus, count + 1, overflow_checks)
             ELSE [worker |-> w2, result |-> v, count |-> count + 1,
                   remaining |-> IF v.tag = "Incomplete" THEN 0 ELSE remaining]

WorkerCheck(w, max_count, overflow_checks) == CheckLoop(w, max_count, 0, overflow_checks)

\* ----------------------------------------------------------------- Checker

\* Consolidate returning the failure of the last failing worker.
ConsolidateLastFail(results) ==
    IF \A i \in DOMAIN results : results[i].tag = "Pass" THEN Pass
    ELSE IF \E i \in DOMAIN results : results[i].tag = "Fail"
         THEN results[CHOOSE i \in DOMAIN results :
                         /\ results[i].tag = "Fail"
                         /\ \A j \in DOMAIN results : results[j].tag = "Fail" => j <= i]
         ELSE Incomplete

\* A consolidation that has lost its Pass arm.
ConsolidateNoPass(results) ==
    IF \E i \in DOMAIN results : results[i].tag = "Fail"
    THEN results[CHOOSE i \in DOMAIN results :
                    /\ results[i].tag = "Fail"
                    /\ \A j \in DOMAIN results : results[j].tag = "Fail" => i <= j]
    ELSE Incomplete

\* Step 3 of Checker::check: consolidate the workers' results.
Consolidate(results) ==
    IF \A i \in DOMAIN results : results[i].tag = "Pass" THEN Pass
    ELSE IF \E i \in DOMAIN results : results[i].tag = "Fail"
         THEN results[CHOOSE i \in DOMAIN results :
                         /\ results[i].tag = "Fail"
                         /\ \A j \in DOMAIN results : results[j].tag = "Fail" => i <= j]
         ELSE Incomplete

\* A join that leaves out the workers that panicked.
JoinSkipsPanics(results) ==
    Consolidate(SelectSeq(results, LAMBDA r : r.tag # "Panic"))

\* Steps 2 and 3 of Checker::check: `thread.join().unwrap()` panics on the
\* result of a worker whose thread panicked, and the scope lets every other
\* thread end before the panic resumes; else the results are consolidated.
Join(results) ==
    IF \E i \in DOMAIN results : results[i].tag = "Panic" THEN Panic
    ELSE Consolidate(results)

\* Worker::fork: the frontier is split at len/2; the tail goes to the new
\* worker together with a clone of the predecessor map.
\* A split that leaves the larger half with the original worker.
ForkLenCeil(w) == (Len(w.pending) + 1) \div 2

ForkLen(w) == Len(w.pending) \div 2

\* A fork that leaves the whole frontier with the original worker as well.
ForkKeptAll(w) == w

ForkKept(w) == [w EXCEPT !.pending = SubSeq(w.pending, 1, ForkLen(w))]

\* A fork that starts the new worker with an empty predecessor map.
ForkNewNoClone(w) ==
    [pending |-> SubSeq(w.pending, ForkLen(w) + 1, Len(w.pending)),
     sources |-> <<>>,
     popped |-> <<>>]

ForkNew(w) ==
    [pending |-> SubSeq(w.pending, ForkLen(w) + 1, Len(w.pending)),
     sources |-> w.sources,
     popped |-> <<>>]

\* Checker::pending_count
RECURSIVE SumPending(_)
SumPending(ws) == IF ws = <<>> THEN 0 ELSE Len(Head(ws).pending) + SumPending(Tail(ws))

pending_count == SumPending(workers)

\* Checker::sources: the maps are extended in worker order, so for a key held
\* by several workers the value of the last of them stays.
RECURSIVE ExtendAll(_, _)
ExtendAll(sources, ws) ==
    IF ws = <<>> THEN sources
    ELSE ExtendAll(Head(ws).sources @@ sources, Tail(ws))

Sources == ExtendAll(<<>>, workers)

\* self.workers.iter().filter(|w| !w.pending.is_empty()).count()
ExistingCount(ws) == Cardinality({i \in DOMAIN ws : ws[i].pending # <<>>})

\* ----------------------------------------------------------------- path_to

\* Step 1 of path_to: the stack of digests, the init digest on top (last).
RECURSIVE BuildDigests(_, _, _)
BuildDigests(sources, next_digest, digests) ==
    IF next_digest \notin DOMAIN sources THEN digests
    ELSE IF sources[next_digest] # None
         THEN BuildDigests(sources, sources[next_digest], Append(digests, next_digest))
         ELSE Append(digests, next_digest)

NoPath == [ok |-> FALSE, path |-> <<>>]

\* Step 2: init_states.into_iter().find(|s| fingerprint(&s) == digests.pop().unwrap()).unwrap()
\* The closure pops a digest for every candidate it is asked about.
RECURSIVE FindInit(_, _)
FindInit(init_states, digests) ==
    IF init_states = <<>> THEN [ok |-> FALSE, last_state |-> None, digests |-> digests]
    ELSE IF digests = <<>> THEN [ok |-> FALSE, last_state |-> None, digests |-> digests]
    ELSE LET top == digests[Len(digests)]
             rest == SubSeq(digests, 1, Len(digests) - 1)
         IN  IF fingerprint(Head(init_states)) = top
             THEN [ok |-> TRUE, last_state |-> Head(init_states), digests |-> rest]
             ELSE FindInit(Tail(init_states), rest)

\* actions.into_iter().find_map(..): the first action leading to next_digest.
RECURSIVE FindAction(_, _, _)
FindAction(last_state, actions, next_digest) ==
    IF actions = <<>> THEN None
    ELSE LET next_state == NextState(last_state, Head(actions))
         IN  IF next_state # None /\ fingerprint(next_state) = next_digest
             THEN Head(actions)
             ELSE FindAction(last_state, Tail(actions), next_digest)

\* Step 3: unwind the remaining digests into (state, action) pairs.
RECURSIVE Unwind(_, _, _)
Unwind(last_state, digests, output) ==
    IF digests = <<>> THEN [ok |-> TRUE, path |-> output]
    ELSE LET next_digest == digests[Len(digests)]
             action == FindAction(last_state, Actions(last_state), next_digest)
         IN  IF action = None THEN NoPath
             ELSE Unwind(NextState(last_state, action),
                         SubSeq(digests, 1, Len(digests) - 1),
                         Append(output, <<last_state, action>>))

\* Checker::path_to(state); ok = FALSE stands for a panic (an unwrap of None
\* or the `expect`).
PathIn(sources, state) ==
    LET digests == BuildDigests(sources, fingerprint(state), <<>>)
        init == FindInit(sm.init_states, digests)
    IN  IF init.ok THEN Unwind(init.last_state, init.digests, <<>>) ELSE NoPath

PathTo(state) == PathIn(Sources, state)

\* ------------------------------------------------------- check_and_report

\* StateMachine::display_outcome: the machines of kind "ring" describe the
\* outcome of every step by the state it leads to, those of kind "tree" only
\* the outcome of action 1.
DisplayOutcome(state, action) ==
    IF sm.kind = "ring" \/ action = 1 THEN NextState(state, action) ELSE None

\* One line written to the writer.
Line(kind, a, b) == [line |-> kind, a |-> a, b |-> b]

\* The `for (state, action) in path` loop of check_and_report.
RECURSIVE WritePath(_, _)
WritePath(path, w) ==
    IF path = <<>> THEN w
    ELSE LET state == Head(path)[1]
             action == Head(path)[2]
             outcome == DisplayOutcome(state, action)
             w1 == Append(w, Line("ACTION", action, None))
         IN  WritePath(Tail(path),
                       IF outcome # None THEN Append(w1, Line("OUTCOME", outcome, None))
                       ELSE w1)

\* The Fail arm of check_and_report: the summary line, then the path.
WriteReport(pending, path) ==
    WritePath(path, <<Line("SUMMARY", pending, Len(path))>>)

\* ------------------------------------------------------------- the actions

\* `entry` keeps the number of workers with a non-empty frontier the call
\* found, `created` the number of workers it has added.
Idle == [pc |-> "idle", target |-> 0, min_pending |-> 0, forks |-> <<>>,
         entry |-> 0, created |-> 0]

NotReporting == [pc |-> "idle", block_size |-> 0]

NoResult == [tag |-> "none", state |-> None]

NoCall == [op |-> "new", arg |-> None, result |-> NoResult,
           results |-> <<>>, counts |-> <<>>, remaining |-> <<>>, path |-> <<>>,
           written |-> <<>>]

Init ==
    /\ sm \in Machines
    /\ build = "unknown"
    /\ workers = <<WorkerInit>>
    /\ adj = Idle
    /\ report = NotReporting
    /\ panicked = FALSE
    /\ last = NoCall
    /\ fails = <<>>
    /\ forked = <<>>

\* The build that a usize overflow shows to be running.
BuildOf(overflow_checks) == IF overflow_checks THEN "debug" ELSE "release"

\* Checker::check(max_count), in a build with or without overflow checks.
Check(max_count, overflow_checks) ==
    /\ adj.pc = "idle"
    /\ report.pc = "idle"
    /\ ~panicked
    /\ build \in {"unknown", BuildOf(overflow_checks)}
    /\ LET runs == [i \in DOMAIN workers |->
                       WorkerCheck(workers[i], max_count, overflow_checks)]
           results == [i \in DOMAIN workers |-> runs[i].result]
           panic == \E i \in DOMAIN workers : results[i].tag = "Panic"
           overflowed == \E i \in DOMAIN workers :
                            results[i] = Panic \/ runs[i].remaining > max_count
           result == Join(results)
       IN  /\ build' = IF overflowed THEN BuildOf(overflow_checks) ELSE build
           /\ workers' = [i \in DOMAIN workers |-> runs[i].worker]
           /\ panicked' = panic
           /\ last' = [NoCall EXCEPT !.op = "check", !.arg = max_count,
                         !.result = result, !.results = results,
                         !.counts = [i \in DOMAIN workers |-> runs[i].count],
                         !.remaining = [i \in DOMAIN workers |-> runs[i].remaining]]
           /\ fails' = IF result.tag = "Fail" THEN Append(fails, result.state) ELSE fails
    /\ UNCHANGED <<sm, adj, report, forked>>

\* Checker::path_to(state)
CallPathTo(state) ==
    /\ adj.pc = "idle"
    /\ report.pc = "idle"
    /\ ~panicked
    /\ LET p == PathTo(state)
       IN  /\ panicked' = ~p.ok
           /\ last' = [NoCall EXCEPT !.op = "path_to", !.arg = state, !.path = p.path,
                         !.result = IF p.ok THEN [tag |-> "Path", state |-> None] ELSE Panic]
    /\ UNCHANGED <<sm, build, workers, adj, report, fails, forked>>

\* A `for` loop that stops one fork late: it breaks only when
\* existing_count + added.len() exceeds the target.
RECURSIVE ForLoopOneMore(_, _, _, _, _, _, _)
ForLoopOneMore(ws, i, added, forks, existing_count, target, min_pending) ==
    IF i > Len(ws) THEN [workers |-> ws, added |-> added, forks |-> forks]
    ELSE IF existing_count + Len(added) > target
    THEN [workers |-> ws, added |-> added, forks |-> forks]
    ELSE IF Len(ws[i].pending) < min_pending
    THEN ForLoopOneMore(ws, i + 1, added, forks, existing_count, target, min_pending)
    ELSE ForLoopOneMore([ws EXCEPT ![i] = ForkKept(ws[i])], i + 1,
                        Append(added, ForkNew(ws[i])),
                        Append(forks, [worker |-> i, len |-> Len(ws[i].pending),
                                       min_pending |-> min_pending]),
                        existing_count, target, min_pending)

\* The `for worker in &mut self.workers` loop of adjust_worker_count, from
\* worker i on: `added` collects the forked-off workers; `forks` notes, for
\* every fork, the worker forked and the size its frontier had.
RECURSIVE ForLoop(_, _, _, _, _, _, _)
ForLoop(ws, i, added, forks, existing_count, target, min_pending) ==
    IF i > Len(ws) THEN [workers |-> ws, added |-> added, forks |-> forks]
    ELSE IF existing_count + Len(added) >= target
    THEN [workers |-> ws, added |-> added, forks |-> forks]
    ELSE IF Len(ws[i].pending) < min_pending
    THEN ForLoop(ws, i + 1, added, forks, existing_count, target, min_pending)
    ELSE ForLoop([ws EXCEPT ![i] = ForkKept(ws[i])], i + 1,
                 Append(added, ForkNew(ws[i])),
                 Append(forks, [worker |-> i, len |-> Len(ws[i].pending),
                                min_pending |-> min_pending]),
                 existing_count, target, min_pending)

\* One round of the `loop` of adjust_worker_count over the workers ws: count
\* the non-empty workers, then run the `for`.
RoundOf(ws, target, min_pending) ==
    ForLoop(ws, 1, <<>>, <<>>, ExistingCount(ws), target, min_pending)

\* Where the call stands after a round r: it returns if nothing was added.
AfterRound(r, target, min_pending, entry, created) ==
    IF r.added = <<>> THEN Idle
    ELSE [pc |-> "loop", target |-> target, min_pending |-> min_pending,
          forks |-> r.forks, entry |-> entry, created |-> created + Len(r.added)]

\* What round r, taken with `base` workers, adds to the history of forks: for
\* every fork of a frontier that held a state, the worker forked, the worker
\* created, and the states each of them was left with.
Forked(r, base) ==
    LET fork(k) == [kept |-> r.forks[k].worker, new |-> base + k,
                    head |-> r.workers[r.forks[k].worker].pending,
                    tail |-> r.added[k].pending]
    IN  SelectSeq([k \in DOMAIN r.forks |-> fork(k)],
                  LAMBDA f : f.head \o f.tail # <<>>)

\* One round of a call: return if nothing was added, else append.  A call
\* made by check_and_report returns into check_and_report.
Round(target, min_pending) ==
    LET r == RoundOf(workers, target, min_pending)
        entry == IF adj.pc = "idle" THEN ExistingCount(workers) ELSE adj.entry
    IN  /\ Len(r.workers) + Len(r.added) <= MaxWorkers
        /\ workers' = r.workers \o r.added
        /\ adj' = AfterRound(r, target, min_pending, entry, adj.created)
        /\ last' = IF r.added = <<>> /\ report.pc = "idle"
                   THEN [NoCall EXCEPT !.op = "adjust_worker_count", !.arg = adj.created]
                   ELSE last
        /\ forked' = forked \o Forked(r, Len(workers))
        /\ UNCHANGED <<sm, build, report, panicked, fails>>

\* Checker::adjust_worker_count(target, min_pending): the call and the first
\* round of its loop.
AdjustWorkerCount(target, min_pending) ==
    /\ adj.pc = "idle"
    /\ report.pc = "idle"
    /\ ~panicked
    /\ Round(target, min_pending)

\* A further round of the loop of a call that has added workers.
AdjustLoop ==
    /\ adj.pc = "loop"
    /\ Round(adj.target, adj.min_pending)

\* What check_and_report has returned so far while it is in its loop.
Reporting == [NoCall EXCEPT !.op = "check_and_report", !.result = Incomplete]

\* One turn of the `loop` of check_and_report: check(block_size) and the arm
\* of the `match` on its result; after Incomplete, the time the block took
\* decides between a larger block, a smaller block and more workers.
Block(block_size) ==
    LET runs == [i \in DOMAIN workers |-> WorkerCheck(workers[i], block_size, TRUE)]
        results == [i \in DOMAIN workers |-> runs[i].result]
        result == Consolidate(results)
        ws == [i \in DOMAIN workers |-> runs[i].worker]
    IN  /\ fails' = IF result.tag = "Fail" THEN Append(fails, result.state) ELSE fails
        /\ UNCHANGED <<sm, build>>
        /\ CASE result.tag = "Fail" ->
                  LET p == PathIn(ExtendAll(<<>>, ws), result.state)
                  IN  /\ workers' = ws
                      /\ adj' = Idle
                      /\ report' = NotReporting
                      /\ forked' = forked
                      /\ panicked' = ~p.ok
                      /\ last' = [NoCall EXCEPT !.op = "check_and_report",
                                    !.result = result, !.path = p.path,
                                    !.written = IF p.ok
                                                THEN WriteReport(SumPending(ws), p.path)
                                                ELSE <<>>]
             [] result.tag = "Pass" ->
                  /\ workers' = ws
                  /\ adj' = Idle
                  /\ report' = NotReporting
                  /\ forked' = forked
                  /\ panicked' = FALSE
                  /\ last' = [NoCall EXCEPT !.op = "check_and_report", !.result = result]
             [] OTHER ->
                  /\ panicked' = FALSE
                  /\ last' = Reporting
                  /\ \/ /\ (3 * block_size) \div 2 <= MaxBlockSize
                        /\ report' = [pc |-> "loop", block_size |-> (3 * block_size) \div 2]
                        /\ workers' = ws
                        /\ adj' = Idle
                        /\ forked' = forked
                     \/ /\ report' = [pc |-> "loop",
                                       block_size |-> IF block_size \div 2 > 1
                                                      THEN block_size \div 2 ELSE 1]
                        /\ workers' = ws
                        /\ adj' = Idle
                        /\ forked' = forked
                     \/ \E num_cpus \in 1 .. MaxTarget :
                           LET quota == (block_size \div num_cpus) \div 2
                               threshold == IF quota > 1 THEN quota ELSE 1
                               r == RoundOf(ws, num_cpus, threshold)
                           IN  /\ Len(r.workers) + Len(r.added) <= MaxWorkers
                               /\ report' = [pc |-> "loop", block_size |-> block_size]
                               /\ workers' = r.workers \o r.added
                               /\ forked' = forked \o Forked(r, Len(ws))
                               /\ adj' = AfterRound(r, num_cpus, threshold,
                                                    ExistingCount(ws), 0)

\* Checker::check_and_report(w): the call and the first turn of its loop.
CheckAndReport ==
    /\ adj.pc = "idle"
    /\ report.pc = "idle"
    /\ ~panicked
    /\ Block(StartBlockSize)

\* A further turn of the loop of check_and_report.
ReportLoop ==
    /\ adj.pc = "idle"
    /\ report.pc = "loop"
    /\ Block(report.block_size)

Next ==
    \/ \E max_count \in 0 .. MaxCount, overflow_checks \in BOOLEAN :
          Check(max_count, overflow_checks)
    \/ \E state \in States : CallPathTo(state)
    \/ \E target \in 0 .. MaxTarget, min_pending \in MinPendingChoices :
          AdjustWorkerCount(target, min_pending)
    \/ AdjustLoop
    \/ CheckAndReport
    \/ ReportLoop

Spec == Init /\ [][Next]_vars

\* A caller that goes on calling check with a budget of one state or more,
\* and calls adjust_worker_count in between as it likes.  With such a budget
\* `remaining` never passes below 0, so the builds do not differ.
CheckAgain == \E max_count \in 1 .. MaxCount : Check(max_count, TRUE)

NextRepeat ==
    \/ CheckAgain
    \/ \E target \in 0 .. MaxTarget, min_pending \in MinPendingChoices :
          AdjustWorkerCount(target, min_pending)
    \/ AdjustLoop

\* Whenever adjust_worker_count has returned the caller may call check, and
\* it does so again and again; a running adjust_worker_count call goes on.
RepeatSpec ==
    Init /\ [][NextRepeat]_vars /\ SF_vars(CheckAgain) /\ WF_vars(AdjustLoop)

\* A checker made for a machine one of whose callbacks panics.
InitPanic ==
    /\ sm \in PanicMachines
    /\ build = "unknown"
    /\ workers = <<WorkerInit>>
    /\ adj = Idle
    /\ report = NotReporting
    /\ panicked = FALSE
    /\ last = NoCall
    /\ fails = <<>>
    /\ forked = <<>>

\* The same caller with such a machine: the only panics are the callback's.
PanicSpec == InitPanic /\ [][NextRepeat]_vars

\* ------------------------------------------------- the machine's own graph
\* What the claims compare the checker with, computed from the machine alone.

InitSet == {sm.init_states[i] : i \in DOMAIN sm.init_states}

Successors(s) == {NextState(s, Actions(s)[k]) : k \in DOMAIN Actions(s)} \ {None}

RECURSIVE ReachFrom(_)
ReachFrom(S) ==
    LET T == S \cup UNION {Successors(s) : s \in S}
    IN  IF T = S THEN S ELSE ReachFrom(T)

\* The states reachable from an initial state by next_state transitions.
Reachable == ReachFrom(InitSet)

\* The least number of transitions from an initial state to s (s reachable).
RECURSIVE DistFrom(_, _, _)
DistFrom(layer, s, d) ==
    IF s \in layer THEN d
    ELSE DistFrom(layer \cup UNION {Successors(t) : t \in layer}, s, d + 1)

Distance(s) == DistFrom(InitSet, s, 0)

StateOf(digest) == CHOOSE s \in States : fingerprint(s) = digest

\* The number of predecessor links from digest back to a `none` entry.
RECURSIVE Links(_, _)
Links(sources, digest) ==
    IF sources[digest] = None THEN 0 ELSE 1 + Links(sources, sources[digest])

Range(q) == {q[i] : i \in DOMAIN q}

RECURSIVE Dedup(_, _)
Dedup(q, out) ==
    IF q = <<>> THEN out
    ELSE Dedup(Tail(q), IF Head(q) \in Range(out) THEN out ELSE Append(out, Head(q)))

\* The order in which a breadth-first search of the machine discovers states,
\* once the first k discovered states have been expanded.
RECURSIVE BfsOrder(_, _, _)
BfsOrder(order, done, k) ==
    IF done = k \/ done >= Len(order) THEN order
    ELSE LET s == order[done + 1]
             succ == [j \in DOMAIN Actions(s) |-> NextState(s, Actions(s)[j])]
             fresh == SelectSeq(succ, LAMBDA t : t # None /\ t \notin Range(order))
         IN  BfsOrder(order \o Dedup(fresh, <<>>), done + 1, k)

Discovered(k) == BfsOrder(Dedup(sm.init_states, <<>>), 0, k)

RECURSIVE SumSeq(_)
SumSeq(q) == IF q = <<>> THEN 0 ELSE Head(q) + SumSeq(Tail(q))

SingleWorker == Len(workers) = 1

ReturnedBy(op, tag) == last.op = op /\ last.result.tag = tag

\* ---------------------------------------------------------------- claims

\* C1: whenever Checker.check returns Fail{state}, with any number of workers
\* and after any earlier check and adjust_worker_count calls, `state` is
\* reachable from an initial state and the invariant is false on it.
C1_FailIsSound ==
    ReturnedBy("check", "Fail") =>
        /\ last.result.state \in Reachable
        /\ ~Invariant(last.result.state)

\* A Fail returned by a checker of several workers that has failed before.
C1_Witness ==
    /\ ReturnedBy("check", "Fail")
    /\ Len(workers) >= 2
    /\ Len(fails) >= 2

\* Whether path_to's answer for `state` is what the contract promises.
IsPathTo(path, state) ==
    LET n == Len(path)
    IN  /\ (state \in InitSet => n = 0)
        /\ n = 0 => state \in InitSet
        /\ n > 0 =>
             /\ path[1][1] \in InitSet
             /\ \A i \in 1 .. (n - 1) : NextState(path[i][1], path[i][2]) = path[i + 1][1]
             /\ NextState(path[n][1], path[n][2]) # None
             /\ fingerprint(NextState(path[n][1], path[n][2])) = fingerprint(state)

\* C2: for every machine, with one or several initial states, and every state
\* whose fingerprint is a key of sources(), path_to(state) returns a path that
\* starts in an initial state, follows next_state and ends in `state`; it is
\* empty for an initial state.
C2_PathValid ==
    (last.op = "path_to" /\ fingerprint(last.arg) \in DOMAIN Sources) =>
        /\ last.result.tag = "Path"
        /\ IsPathTo(last.path, last.arg)

\* C3 as stated: a Pass of a single worker means every reachable state
\* satisfies the invariant, whatever earlier calls returned.
C3_PassMeansAllHold ==
    (ReturnedBy("check", "Pass") /\ SingleWorker) =>
        \A s \in Reachable : Invariant(s)

\* C3 amended: a Pass of a single worker means every reachable state satisfies
\* the invariant or was the state of an earlier Fail result; so with no
\* earlier Fail every reachable state satisfies the invariant.
C3_PassMeansAllHoldOrFailed ==
    (ReturnedBy("check", "Pass") /\ SingleWorker) =>
        \A s \in Reachable : Invariant(s) \/ s \in Range(fails)

\* A Pass of a single worker after exploring several states, one of which an
\* earlier call returned as failing.
C3_Witness ==
    /\ ReturnedBy("check", "Pass")
    /\ SingleWorker
    /\ fails # <<>>
    /\ Cardinality(Reachable) >= 3
    /\ \E s \in Reachable : Invariant(s)

\* C4: after the workers of a pass are joined, check returns Pass iff every
\* worker returned Pass; otherwise, if a worker returned Fail, Fail with the
\* state of the lowest-indexed failing worker; otherwise Incomplete.
C4_Consolidation ==
    (last.op = "check" /\ last.result.tag # "Panic") =>
        LET rs == last.results
            failing == {i \in DOMAIN rs : rs[i].tag = "Fail"}
            all_passed == \A i \in DOMAIN rs : rs[i].tag = "Pass"
        IN  /\ (last.result.tag = "Pass") <=> all_passed
            /\ failing # {} =>
                 \E i \in failing :
                    /\ \A j \in failing : i <= j
                    /\ last.result = Fail(rs[i].state)
            /\ (~all_passed /\ failing = {}) => last.result = Incomplete

\* A pass in which two workers fail with different states, after a worker
\* that did not fail.
C4_Witness ==
    /\ last.op = "check"
    /\ \E i, j \in DOMAIN last.results :
          /\ i < j
          /\ last.results[i].tag = "Fail"
          /\ last.results[j].tag = "Fail"
          /\ last.results[i].state # last.results[j].state

\* C5: with a single worker, the states popped so far followed by the frontier
\* are exactly the states breadth-first search has discovered when it has
\* expanded that many states, in that order (no pending state is skipped or
\* popped twice across calls); the Fail results are the violating states among
\* the popped ones, in the order popped; a state just returned as failing is
\* the last one popped and is not pending.
C5_ResumeInBfsOrder ==
    SingleWorker =>
        LET w == workers[1]
        IN  /\ w.popped \o w.pending = Discovered(Len(w.popped))
            /\ fails = SelectSeq(w.popped, LAMBDA s : ~Invariant(s))
            /\ ReturnedBy("check", "Fail") =>
                 /\ w.popped # <<>>
                 /\ last.result.state = w.popped[Len(w.popped)]
                 /\ last.result.state \notin Range(w.pending)

\* A second Fail in a row of a single worker, with states still pending.
C5_Witness ==
    /\ SingleWorker
    /\ ReturnedBy("check", "Fail")
    /\ Len(fails) >= 2
    /\ workers[1].pending # <<>>

\* C6: in a checker that never forked, every fingerprint of sources() is as
\* many predecessor links away from a `none` entry as its state is transitions
\* away from the nearest initial state, also when the exploration was split
\* over several calls and resumed after Fail results; a path path_to returns
\* has that length.
C6_LinksAreMinimal ==
    SingleWorker =>
        /\ \A f \in DOMAIN Sources : Links(Sources, f) = Distance(StateOf(f))
        /\ ReturnedBy("path_to", "Path") => Len(last.path) = Distance(last.arg)

\* A single worker, resumed after a Fail, holding a state two links away from
\* an initial state.
C6_Witness ==
    /\ SingleWorker
    /\ last.op = "check"
    /\ fails # <<>>
    /\ \E f \in DOMAIN Sources : Links(Sources, f) >= 2

\* C7: for every max_count, 0 and 1 included, a worker pops at most max_count
\* states in one check(max_count), its remaining budget never goes below zero,
\* and the k workers of a call pop at most k * max_count states together.
C7_Budget ==
    last.op = "check" =>
        /\ last.result.tag # "Panic"
        /\ \A i \in DOMAIN last.counts :
              /\ last.counts[i] <= last.arg
              /\ last.remaining[i] <= last.arg
        /\ SumSeq(last.counts) <= Len(last.counts) * last.arg

\* C8: whenever check returns Incomplete, a state is still pending right
\* after the call; a pop that uses up the budget and empties the frontier
\* gives Pass.
C8_IncompleteMeansPending ==
    ReturnedBy("check", "Incomplete") => pending_count > 0

\* C9: across check and adjust_worker_count, no key of a worker's predecessor
\* map is removed and no value is overwritten, so the keys of sources() only
\* grow.
C9_Monotonic ==
    [][/\ \A i \in DOMAIN workers :
             /\ i \in DOMAIN workers'
             /\ \A f \in DOMAIN workers[i].sources :
                   /\ f \in DOMAIN workers'[i].sources
                   /\ workers'[i].sources[f] = workers[i].sources[f]
       /\ DOMAIN Sources \subseteq DOMAIN Sources'
       /\ Cardinality(DOMAIN Sources) <= Cardinality(DOMAIN Sources')]_vars

\* Several workers whose maps have grown past the initial states and differ.
C9_Witness ==
    /\ last.op = "check"
    /\ Len(workers) >= 2
    /\ Cardinality(DOMAIN Sources) > Cardinality(InitSet) + 1
    /\ workers[1].sources # workers[2].sources

\* C10: adjust_worker_count(target, min_pending) forks a worker only if its
\* frontier holds more than min_pending states.
C10_ForkEligibility ==
    \A k \in DOMAIN adj.forks : adj.forks[k].len > adj.forks[k].min_pending

\* A call of adjust_worker_count that is in its loop goes on to the next
\* round: the thread running it is not stopped.
FairSpec == Spec /\ WF_vars(AdjustLoop)

\* C11: adjust_worker_count(target, min_pending) terminates for every target,
\* every min_pending and every configuration of frontiers: a call that is in
\* its loop returns.
C11_Terminates == [](adj.pc = "loop" => <>(adj.pc = "idle"))

\* A configuration the loop cannot leave: the target is not reached, no
\* frontier holds more than one state, and a worker is eligible.  A fork of a
\* frontier of at most one state adds no worker with a non-empty frontier.
Stuck ==
    /\ adj.pc = "loop"
    /\ ExistingCount(workers) < adj.target
    /\ \A i \in DOMAIN workers : Len(workers[i].pending) <= 1
    /\ \E i \in DOMAIN workers : Len(workers[i].pending) >= adj.min_pending

\* Every round taken from a stuck configuration forks and leads to a stuck
\* configuration with more workers: the call never returns from it.
C11_StuckStays == [][Stuck => (Stuck' /\ Len(workers') > Len(workers))]_vars

\* The number of the first k steps of a path that display_outcome describes.
Outcomes(path, k) ==
    Cardinality({i \in 1 .. k : DisplayOutcome(path[i][1], path[i][2]) # None})

\* What the claim lets a failure report be for a path: the summary line, then
\* for the k-th step its ACTION line, followed by its OUTCOME line if
\* display_outcome describes the step, and no other line.
IsReportOf(written, path) ==
    /\ Len(written) = 1 + Len(path) + Outcomes(path, Len(path))
    /\ written[1] = Line("SUMMARY", pending_count, Len(path))
    /\ \A k \in DOMAIN path :
          LET at == 1 + k + Outcomes(path, k - 1)
              outcome == DisplayOutcome(path[k][1], path[k][2])
          IN  /\ written[at] = Line("ACTION", path[k][2], None)
              /\ outcome # None => written[at + 1] = Line("OUTCOME", outcome, None)

\* C12: check_and_report is in its loop only while check has returned
\* Incomplete and returns at the first Fail or Pass; after Fail{state} the
\* writer holds the summary line with pending_count() and the length of
\* path_to(state), then the ACTION and OUTCOME lines of that path, and
\* nothing else.
C12_FailureReport ==
    /\ report.pc = "loop" => last = Reporting
    /\ (report.pc = "idle" /\ adj.pc = "idle" /\ last.op = "check_and_report") =>
          /\ last.result.tag \in {"Fail", "Pass"}
          /\ last.result.tag = "Fail" =>
                /\ ~panicked
                /\ PathTo(last.result.state).ok
                /\ IsReportOf(last.written, PathTo(last.result.state).path)

\* C13: path_to(state), for a state recorded in sources(), takes exactly one
\* fingerprint off its stack, the top one, and selects the initial state with
\* that fingerprint wherever it stands in init_states(); the rest of the
\* stack is left as it was.
C13_InitSelection ==
    (last.op = "path_to" /\ adj.pc = "idle" /\ fingerprint(last.arg) \in DOMAIN Sources) =>
        LET digests == BuildDigests(Sources, fingerprint(last.arg), <<>>)
            init == FindInit(sm.init_states, digests)
        IN  /\ init.ok
            /\ fingerprint(init.last_state) = digests[Len(digests)]
            /\ init.digests = SubSeq(digests, 1, Len(digests) - 1)

\* Following the predecessor links of a map from digest arrives at a `none`
\* entry within `fuel` links, through keys of the map only.
RECURSIVE ChainEnds(_, _, _)
ChainEnds(sources, digest, fuel) ==
    IF digest \notin DOMAIN sources THEN FALSE
    ELSE IF sources[digest] = None THEN TRUE
    ELSE IF fuel = 0 THEN FALSE
    ELSE ChainEnds(sources, sources[digest], fuel - 1)

\* A link of a predecessor map from digest g to digest f is a transition of
\* the machine: some state with digest g has a successor with digest f.
RealLink(g, f) ==
    \E s \in States :
        /\ fingerprint(s) = g
        /\ \E t \in Successors(s) : fingerprint(t) = f

\* C14: with any number of workers, every chain of links of sources() leads
\* from its key to a `none` entry without a cycle and without a missing
\* predecessor, and every link is a transition of the machine.
C14_UnionUsable ==
    \A f \in DOMAIN Sources :
        /\ ChainEnds(Sources, f, Cardinality(DOMAIN Sources))
        /\ Sources[f] # None => RealLink(Sources[f], f)

\* Two workers hold different predecessors for the same state, and sources()
\* has more than one link to follow.
C14_Witness ==
    /\ \E i, j \in DOMAIN workers : \E f \in DOMAIN workers[i].sources :
          /\ f \in DOMAIN workers[j].sources
          /\ workers[i].sources[f] # workers[j].sources[f]
    /\ \E f \in DOMAIN Sources : Sources[f] # None /\ Sources[Sources[f]] # None

\* No element occurs twice in the sequence q.
NoRepeat(q) == \A i, j \in DOMAIN q : q[i] = q[j] => i = j

Digests(S) == {fingerprint(s) : s \in S}

\* The frontier of worker w holds only states whose digest is a key of its
\* map, holds no digest twice, and w has popped no digest twice nor one that
\* is still pending.
FrontierRecorded(w) ==
    /\ Digests(Range(w.pending)) \subseteq DOMAIN w.sources
    /\ Digests(Range(w.popped)) \subseteq DOMAIN w.sources
    /\ NoRepeat([i \in DOMAIN w.pending |-> fingerprint(w.pending[i])])
    /\ NoRepeat([i \in DOMAIN w.popped |-> fingerprint(w.popped[i])])
    /\ Digests(Range(w.pending)) \cap Digests(Range(w.popped)) = {}

\* The pending states that the forks of a step have moved from worker i to
\* the workers they created.
Moved(i) ==
    IF Len(workers') > Len(workers)
    THEN UNION {Range(workers'[Len(workers) + k].pending) :
                   k \in {k \in DOMAIN adj'.forks : adj'.forks[k].worker = i}}
    ELSE {}

\* In a step, the states that worker i has enqueued (and still holds, has
\* popped or has handed to a fork) are those whose digests are the keys it
\* has inserted.
EnqueuedWhenInserted(i) ==
    LET w == workers[i]
        v == workers'[i]
        before == Range(w.pending) \cup Range(w.popped)
        after == Range(v.pending) \cup Range(v.popped) \cup Moved(i)
    IN  Digests(after \ before) = DOMAIN v.sources \ DOMAIN w.sources

\* C15: between operations the digest of every pending state of a worker is
\* a key of that worker's map, a state is enqueued exactly when its digest is
\* newly inserted, and so a worker never holds two pending states with one
\* digest and never pops a digest twice.
C15_FrontierDedup ==
    /\ [](\A i \in DOMAIN workers : FrontierRecorded(workers[i]))
    /\ [][\A i \in DOMAIN workers : EnqueuedWhenInserted(i)]_vars

\* A worker has popped states, holds pending ones, and has met a state again
\* that its map already held: more transitions seen than keys inserted.
C15_Witness ==
    \E i \in DOMAIN workers :
        LET w == workers[i]
        IN  /\ Len(w.popped) >= 2
            /\ Len(w.pending) >= 2
            /\ \E k, l \in DOMAIN w.popped :
                  /\ k # l
                  /\ Successors(w.popped[k]) \cap Successors(w.popped[l]) # {}

\* C16: in every worker the keys mapped to `none` are exactly the digests of
\* the machine's initial states, and every key f mapped to some(g) has g as a
\* key of the same map and a transition of the machine from a state with
\* digest g to one with digest f.
C16_MapWellFormed ==
    \A i \in DOMAIN workers :
        LET sources == workers[i].sources
        IN  /\ {f \in DOMAIN sources : sources[f] = None} = Digests(InitSet)
            /\ \A f \in DOMAIN sources :
                  sources[f] # None =>
                      /\ sources[f] \in DOMAIN sources
                      /\ RealLink(sources[f], f)

\* A worker created by a fork, of a machine with two initial states, has
\* gone on to record links of its own.
C16_Witness ==
    /\ Cardinality(InitSet) = 2
    /\ \E i \in DOMAIN workers :
          /\ i > 1
          /\ workers[i].popped # <<>>
          /\ workers[i].sources # workers[1].sources
          /\ \E f \in DOMAIN workers[i].sources : workers[i].sources[f] # None

\* A step that is one round of adjust_worker_count and nothing else, and in
\* which workers were forked.
ForkingRound ==
    /\ Len(workers') > Len(workers)
    /\ adj.pc = "loop" \/ report'.pc = "idle"

\* Every fork of the step has left the first floor(n/2) states of the
\* frontier with the forked worker and given the others, in order, to the
\* worker it created; the two parts are disjoint and make up the frontier;
\* both workers hold the map the forked worker had.
ForksSplit ==
    /\ Len(workers') = Len(workers) + Len(adj'.forks)
    /\ \A k \in DOMAIN adj'.forks :
          LET old == workers[adj'.forks[k].worker]
              kept == workers'[adj'.forks[k].worker]
              new == workers'[Len(workers) + k]
              n == Len(old.pending)
          IN  /\ kept.pending = SubSeq(old.pending, 1, n \div 2)
              /\ new.pending = SubSeq(old.pending, n \div 2 + 1, n)
              /\ kept.pending \o new.pending = old.pending
              /\ Range(kept.pending) \cap Range(new.pending) = {}
              /\ kept.sources = old.sources
              /\ new.sources = old.sources

\* C17: a fork splits the frontier at floor(n/2) and copies the map, and so
\* adjust_worker_count changes neither pending_count() nor sources().
C17_ForkPartition ==
    [][ForkingRound =>
          /\ ForksSplit
          /\ pending_count' = pending_count
          /\ Sources' = Sources]_vars

\* C17 as the code has it: a fork splits the frontier at floor(n/2) and
\* copies the map; adjust_worker_count changes neither pending_count() nor
\* the keys of sources(), and every entry of sources() after it is an entry
\* of the map of some worker before it.
C17_ForkPartitionKeys ==
    [][ForkingRound =>
          /\ ForksSplit
          /\ pending_count' = pending_count
          /\ DOMAIN Sources' = DOMAIN Sources
          /\ \A f \in DOMAIN Sources' :
                \E i \in DOMAIN workers :
                    /\ f \in DOMAIN workers[i].sources
                    /\ workers[i].sources[f] = Sources'[f]]_vars

\* The first of two workers has been forked with two or more pending states,
\* and the second holds another predecessor for some state than the new third
\* worker does: sources() gave the second worker's before the fork and gives
\* the third worker's after it.
C17_Witness ==
    /\ adj.pc = "loop"
    /\ Len(workers) = 3
    /\ Len(adj.forks) = 1
    /\ adj.forks[1].worker = 1
    /\ adj.forks[1].len >= 2
    /\ \E f \in DOMAIN workers[2].sources :
          /\ f \in DOMAIN workers[3].sources
          /\ workers[2].sources[f] # workers[3].sources[f]

\* The successors of state s in the order of its actions.
SuccSeq(s) ==
    SelectSeq([k \in DOMAIN Actions(s) |-> NextState(s, Actions(s)[k])],
              LAMBDA t : t # None)

\* The successors of s that worker w discovered while expanding s, in the
\* order of the actions: those recorded with s as predecessor.
FoundFrom(w, s) ==
    Dedup(SelectSeq(SuccSeq(s),
                    LAMBDA t : /\ fingerprint(t) \in DOMAIN w.sources
                               /\ w.sources[fingerprint(t)] = fingerprint(s)),
          <<>>)

\* C18: when the check of a worker has returned Fail{s}, the digest of every
\* successor of s is in the worker's map, and the successors discovered while
\* expanding s stand at the end of its frontier, in the order of the actions,
\* with the digest of s as predecessor.
C18_ExpandedBeforeFail ==
    (last.op = "check" /\ adj.pc = "idle" /\ ~panicked) =>
        \A i \in DOMAIN last.results :
            last.results[i].tag = "Fail" =>
                LET s == last.results[i].state
                    w == workers[i]
                    found == FoundFrom(w, s)
                    n == Len(w.pending)
                IN  /\ Digests(Successors(s)) \subseteq DOMAIN w.sources
                    /\ Len(found) <= n
                    /\ SubSeq(w.pending, n - Len(found) + 1, n) = found

\* The second of several workers has failed on a state with two successors,
\* both discovered while expanding it.
C18_Witness ==
    /\ last.op = "check" /\ adj.pc = "idle" /\ ~panicked
    /\ Len(workers) >= 2
    /\ last.results[2].tag = "Fail"
    /\ Len(FoundFrom(workers[2], last.results[2].state)) = 2

Max(a, b) == IF a >= b THEN a ELSE b

\* The number of workers with a non-empty frontier just before the k-th fork
\* of the round taken by a step: a fork of a frontier of two or more states
\* adds one, a fork of a smaller frontier adds none.
CountBeforeFork(k) ==
    ExistingCount(workers)
        + Cardinality({j \in 1 .. (k - 1) : adj'.forks[j].len >= 2})

\* Worker v is worker w, forked or not.
SameWorker(w, v) ==
    /\ v.sources = w.sources
    /\ v.popped = w.popped
    /\ Len(v.pending) <= Len(w.pending)
    /\ v.pending = SubSeq(w.pending, 1, Len(v.pending))

\* C19: adjust_worker_count forks no worker once the number of workers with
\* a non-empty frontier, the workers it has created included, has reached
\* the target; during the call and on its return that number is at most
\* max(target, its value on entry); the workers created stand after the
\* existing ones, which keep their order.
C19_TargetBound ==
    /\ [](adj.pc = "loop" => ExistingCount(workers) <= Max(adj.target, adj.entry))
    /\ [][ForkingRound =>
             /\ \A k \in DOMAIN adj'.forks : CountBeforeFork(k) < adj'.target
             /\ \A i \in DOMAIN workers : SameWorker(workers[i], workers'[i])]_vars
    /\ [][(adj.pc = "loop" /\ adj'.pc = "idle") =>
             /\ workers' = workers
             /\ ExistingCount(workers') <= Max(adj.target, adj.entry)]_vars

\* A call has created a worker and returned, leaving two workers with a
\* non-empty frontier.
C19_Witness ==
    /\ last.op = "adjust_worker_count"
    /\ last.arg >= 1
    /\ ExistingCount(workers) >= 2

\* No state is pending and the result of the last check call, when it is the
\* last call, is Pass.
Finished == pending_count = 0 /\ (last.op = "check" => last.result = Pass)

\* C20: when check is called again and again with max_count >= 1, with
\* adjust_worker_count calls in between, then from some time on either an
\* adjust_worker_count call is running that never returns, or no state is
\* pending and no check result is Incomplete or Fail any more; once no state
\* is pending none is pending ever after, and every check call returns Pass
\* and leaves sources() as it is.
C20_Terminates ==
    /\ <>[](adj.pc = "loop" \/ Finished)
    /\ [][pending_count = 0 =>
             /\ pending_count' = 0
             /\ (adj.pc = "idle" /\ adj'.pc = "idle" /\ last'.op = "check") =>
                   /\ last'.result = Pass
                   /\ Sources' = Sources]_vars

\* check has returned Pass with several workers, after a Fail result, having
\* expanded every reachable state of a machine with two initial states.
C20_Witness ==
    /\ ReturnedBy("check", "Pass")
    /\ Len(workers) >= 2
    /\ fails # <<>>
    /\ Cardinality(InitSet) = 2
    /\ Digests(Reachable) = DOMAIN Sources

\* The workers that descend from the k-th fork of the history: the worker
\* forked, the worker created, and every worker created by a later fork of
\* one of these.
RECURSIVE HeirsFrom(_, _)
HeirsFrom(j, heirs) ==
    IF j > Len(forked) THEN heirs
    ELSE HeirsFrom(j + 1, IF forked[j].kept \in heirs
                          THEN heirs \cup {forked[j].new} ELSE heirs)

Heirs(k) == HeirsFrom(k + 1, {forked[k].kept, forked[k].new})

\* The workers among W that have popped state s, and those that hold it
\* pending.
PoppedBy(s, W) == {i \in W : s \in Range(workers[i].popped)}
PendingIn(s, W) == {i \in W : s \in Range(workers[i].pending)}

\* After a Pass not preceded by a Fail, sources() holds the digest of every
\* reachable state and every reachable state satisfies the invariant.
PassIsComplete ==
    (ReturnedBy("check", "Pass") /\ adj.pc = "idle" /\ fails = <<>>) =>
        /\ Digests(Reachable) \subseteq DOMAIN Sources
        /\ \A s \in Reachable : Invariant(s)

\* C21: a Pass not preceded by a Fail means that sources() holds every
\* reachable state and that every reachable state satisfies the invariant,
\* with any number of workers; and when check has returned Pass, every state
\* that was pending at a fork has been popped by exactly one of the two
\* workers the fork resulted in.
C21_ParallelComplete ==
    /\ PassIsComplete
    /\ (ReturnedBy("check", "Pass") /\ adj.pc = "idle") =>
          \A k \in DOMAIN forked : \A s \in Range(forked[k].head \o forked[k].tail) :
              Cardinality(PoppedBy(s, {forked[k].kept, forked[k].new})) = 1

\* C21 as the code has it: the state is popped by exactly one of the workers
\* that descend from the fork, which a later fork may have created; until
\* then it is pending in exactly one of them.
C21_ParallelCompleteHeirs ==
    /\ PassIsComplete
    /\ \A k \in DOMAIN forked : \A s \in Range(forked[k].head \o forked[k].tail) :
          /\ Cardinality(PoppedBy(s, Heirs(k)) \cup PendingIn(s, Heirs(k))) = 1
          /\ PoppedBy(s, Heirs(k)) \cap PendingIn(s, Heirs(k)) = {}
          /\ (ReturnedBy("check", "Pass") /\ adj.pc = "idle") =>
                Cardinality(PoppedBy(s, Heirs(k))) = 1

\* check has returned Pass, no Fail before it, for a machine with three or
\* more reachable states, after a worker created by a fork was forked again:
\* a state pending at the first fork was popped by the third worker.
C21_Witness ==
    /\ ReturnedBy("check", "Pass") /\ adj.pc = "idle" /\ fails = <<>>
    /\ Cardinality(Reachable) >= 3
    /\ Len(forked) >= 2
    /\ \E s \in Range(forked[1].head \o forked[1].tail) :
          PoppedBy(s, Heirs(1)) \cap {forked[1].kept, forked[1].new} = {}

\* C22: with any number of workers, when check returns Pass every reachable
\* state that violates the invariant has been the state of a Fail result
\* returned before, also when several workers of one pass found a violation.
\* Stated for the runs in which no `remaining` counter has overflowed.
C22_NoViolationLost ==
    (ReturnedBy("check", "Pass") /\ build = "unknown") =>
        \A s \in Reachable : ~Invariant(s) => s \in Range(fails)

\* Worker i has run the pass of the last check call to an end of its own:
\* its frontier is empty, its budget is used up, the state it popped last
\* violates the invariant, or the callback panicked on the state it popped
\* last.
Stopped(i) ==
    LET r == last.results[i]
        w == workers[i]
        end == w.popped[Len(w.popped)]
    IN  CASE r.tag = "Pass" -> w.pending = <<>>
          [] r.tag = "Incomplete" -> last.counts[i] = last.arg
          [] r.tag = "Fail" -> w.popped # <<>> /\ r.state = end /\ ~Invariant(end)
          [] r.tag = "Panic" -> w.popped # <<>> /\ r.state = end /\ sm.panic.state = end
          [] OTHER -> FALSE

\* C23: once a worker has popped the state on which a user callback panics,
\* the check call of that pass has panicked: it returned no CheckResult,
\* neither Pass nor Incomplete nor the Fail another worker found in the same
\* pass, and every worker of the pass had run to an end of its own.
C23_PanicPropagates ==
    (\E i \in DOMAIN workers : sm.panic.state \in Range(workers[i].popped)) =>
        /\ panicked
        /\ last.op = "check"
        /\ last.result = Panic
        /\ \E i \in DOMAIN last.results : last.results[i].tag = "Panic"
        /\ DOMAIN last.results = DOMAIN workers
        /\ \A i \in DOMAIN workers : Stopped(i)

\* A pass of three workers in which one worker's callback panicked, another
\* worker found a violation and a third one ended with Pass or Incomplete.
C23_Witness ==
    /\ panicked
    /\ last.op = "check"
    /\ \E i, j, k \in DOMAIN last.results :
          /\ last.results[i].tag = "Panic"
          /\ last.results[j].tag = "Fail"
          /\ last.results[k].tag \in {"Pass", "Incomplete"}

====
